---- MODULE Spec2Model ----
(***************************************************************************)
(* Model of invoice_generator.py: InvoiceGenerator.read_excel_data (the    *)
(* record grouper), calculate_totals, generate_pdf (the totals block and   *)
(* the output file) and process_excel_file (the batch loop).               *)
(*                                                                         *)
(* A spreadsheet cell is a tagged value: None (empty cell), a string or a  *)
(* number.  Amounts of money are integers scaled by Scale (1/10000 units), *)
(* which is exact for integer quantities, prices and percents.             *)
(***************************************************************************)
EXTENDS Integers, Sequences, FiniteSets, TLC

VARIABLES
    headers,          \* sheet[1]: the set of column names of the table
    table,            \* the data rows of the sheet (rows 2..), each Columns -> Cell
    pc,               \* position in process_excel_file
    row_idx,          \* read_excel_data: sheet row the loop is at (starts at 2)
    invoices,         \* read_excel_data: invoices (list of closed records)
    current_invoice,  \* read_excel_data: <<>> for None, <<record>> otherwise
    error,            \* the exception that left process_excel_file, or "none"
    read_calls,       \* history: number of calls of read_excel_data
    idx,              \* process_excel_file: loop index over invoices (from 1)
    generated_files,  \* process_excel_file: generated_files
    calls,            \* history: the indices generate_pdf was called with, in order
    fs,               \* the files under output_folder: path -> document written
    logo_path,        \* load_config: self.logo_path ("" when none is configured)
    logo_file,        \* what is at logo_path: "absent", "image" or "not_image"
    requests,         \* web_app: the upload requests in progress, one record each
    uploads,          \* web_app: the names of the files saved under UPLOAD_FOLDER
    output_folder_exists  \* whether the directory output_folder exists

\* the configuration, which process_excel_file only reads
config == <<logo_path, logo_file>>

\* the state of the web application
webvars == <<requests, uploads, output_folder_exists>>

vars == <<headers, table, pc, row_idx, invoices, current_invoice, error,
          read_calls, idx, generated_files, calls, fs, config, webvars>>

----------------------------------------------------------------------------
(* Bounds of the model *)

MaxRows == 3
MaxItems == 2
MaxParse == 100
MaxRequests == 2

----------------------------------------------------------------------------
(* Cells and Python's conversions on them *)

None == [t |-> "none", s |-> "", n |-> 0]
Str(x) == [t |-> "str", s |-> x, n |-> 0]
Num(k) == [t |-> "num", s |-> "", n |-> k]

\* bool(cell): None, "" and 0 are falsy
Truthy(c) == \/ c.t = "str" /\ c.s # ""
             \/ c.t = "num" /\ c.n # 0

Digit(d) ==
    CASE d = 0 -> "0" [] d = 1 -> "1" [] d = 2 -> "2" [] d = 3 -> "3"
      [] d = 4 -> "4" [] d = 5 -> "5" [] d = 6 -> "6" [] d = 7 -> "7"
      [] d = 8 -> "8" [] d = 9 -> "9"

RECURSIVE IntToStr(_)
IntToStr(k) == IF k < 10 THEN Digit(k) ELSE IntToStr(k \div 10) \o Digit(k % 10)

\* str(cell) of a truthy cell
StrOf(c) == IF c.t = "str" THEN c.s ELSE IntToStr(c.n)

\* float(cell): a number converts, a string converts when it is a numeral,
\* anything else raises ValueError (ok = FALSE)
Float(c) ==
    IF c.t = "num" THEN [ok |-> TRUE, v |-> c.n]
    ELSE IF \E k \in 0..MaxParse : IntToStr(k) = c.s
         THEN [ok |-> TRUE, v |-> CHOOSE k \in 0..MaxParse : IntToStr(k) = c.s]
         ELSE [ok |-> FALSE, v |-> 0]

\* float(x or 0)
FloatOrZero(c) == IF Truthy(c) THEN Float(c) ELSE [ok |-> TRUE, v |-> 0]

----------------------------------------------------------------------------
(* Rows *)

Columns == {"Invoice Number", "Date", "Item Name", "Quantity", "Price",
            "Tax %", "Discount %"}

Today == "today"

MkRow(inv, date, item, qty, price, tax, disc) ==
    [c \in Columns |->
        CASE c = "Invoice Number" -> inv
          [] c = "Date" -> date
          [] c = "Item Name" -> item
          [] c = "Quantity" -> qty
          [] c = "Price" -> price
          [] c = "Tax %" -> tax
          [] c = "Discount %" -> disc]

\* row_data.get(col, default) on dict(zip(headers, row))
Get(row_data, col, default) ==
    IF col \in headers THEN row_data[col] ELSE default

----------------------------------------------------------------------------
(* read_excel_data: the record grouper *)

\* line 110: the row starts a new invoice
IsNewInvoice(row_data) == Truthy(Get(row_data, "Invoice Number", None))

\* lines 116-125: the record a start row opens; ok = FALSE when float() raises.
\* customer_name, address and phone are copied through and are left out.
\* start_row is a history field: the sheet row that opened the record.
NewInvoice(row_data, ri) ==
    LET tax == FloatOrZero(Get(row_data, "Tax %", Num(0)))
        disc == FloatOrZero(Get(row_data, "Discount %", Num(0)))
    IN [ok |-> tax.ok /\ disc.ok,
        rec |-> [invoice_number |-> StrOf(Get(row_data, "Invoice Number", Str(""))),
                 date |-> Get(row_data, "Date", Str(Today)),
                 tax_percent |-> tax.v,
                 discount_percent |-> disc.v,
                 items |-> <<>>,
                 start_row |-> ri]]

\* line 128: the row's item is added to the current invoice
HasItem(cur, row_data) ==
    cur # <<>> /\ Truthy(Get(row_data, "Item Name", None))

\* lines 129-133: the item of a row; ok = FALSE when float() raises.
\* row is a history field: the sheet row the item came from.
NewItem(row_data, ri) ==
    LET qty == FloatOrZero(Get(row_data, "Quantity", Num(0)))
        price == FloatOrZero(Get(row_data, "Price", Num(0)))
    IN [ok |-> qty.ok /\ price.ok,
        item |-> [name |-> Get(row_data, "Item Name", Str("")),
                  quantity |-> qty.v,
                  price |-> price.v,
                  row |-> ri]]

\* line 134: current_invoice['items'].append(item)
AddItem(cur, item) ==
    <<[cur[1] EXCEPT !.items = Append(@, item)]>>

\* lines 107-134: one iteration of the loop over the rows.
\* acc = [invoices, current, error]
ProcessRow(acc, row_data, ri) ==
    LET new == IsNewInvoice(row_data)
        inv1 == IF new /\ acc.current # <<>>
                THEN Append(acc.invoices, acc.current[1])
                ELSE acc.invoices
        opened == NewInvoice(row_data, ri)
        cur1 == IF new THEN <<opened.rec>> ELSE acc.current
        it == NewItem(row_data, ri)
    IN IF new /\ ~opened.ok
       THEN [invoices |-> inv1, current |-> acc.current, error |-> "ValueError"]
       ELSE IF HasItem(cur1, row_data)
            THEN IF it.ok
                 THEN [invoices |-> inv1, current |-> AddItem(cur1, it.item),
                       error |-> "none"]
                 ELSE [invoices |-> inv1, current |-> cur1, error |-> "ValueError"]
            ELSE [invoices |-> inv1, current |-> cur1, error |-> "none"]

\* lines 137-138: the last invoice is added
CloseLast(invs, cur) == IF cur # <<>> THEN Append(invs, cur[1]) ELSE invs

\* lines 103-141 as a fold over the rows tbl[k..], the rows numbered from 2
RECURSIVE ReadRows(_, _, _)
ReadRows(acc, tbl, k) ==
    IF acc.error # "none" THEN acc
    ELSE IF k > Len(tbl)
         THEN [invoices |-> CloseLast(acc.invoices, acc.current),
               current |-> acc.current, error |-> "none"]
         ELSE ReadRows(ProcessRow(acc, tbl[k], k + 1), tbl, k + 1)

ReadExcelData(tbl) ==
    ReadRows([invoices |-> <<>>, current |-> <<>>, error |-> "none"], tbl, 1)

\* read_excel_data starting with an empty record open instead of None
ReadExcelDataCall_RecordOpen ==
    /\ pc = "start"
    /\ pc' = "rows"
    /\ read_calls' = read_calls + 1
    /\ row_idx' = 2
    /\ invoices' = <<>>
    /\ current_invoice' = <<[invoice_number |-> "", date |-> None,
                             tax_percent |-> 0, discount_percent |-> 0,
                             items |-> <<>>, start_row |-> 1]>>
    /\ UNCHANGED <<headers, table, error, idx, generated_files, calls, fs>>
    /\ UNCHANGED <<config, webvars>>

\* lines 96-104: the workbook is opened, invoices = [], current_invoice = None
ReadExcelDataCall ==
    /\ pc = "start"
    /\ pc' = "rows"
    /\ read_calls' = read_calls + 1
    /\ row_idx' = 2
    /\ invoices' = <<>>
    /\ current_invoice' = <<>>
    /\ UNCHANGED <<headers, table, error, idx, generated_files, calls, fs>>
    /\ UNCHANGED <<config, webvars>>

\* lines 106-134: the loop body on sheet row row_idx
ReadRow ==
    /\ pc = "rows"
    /\ row_idx - 1 <= Len(table)
    /\ LET r == ProcessRow([invoices |-> invoices, current |-> current_invoice,
                            error |-> "none"], table[row_idx - 1], row_idx)
       IN /\ invoices' = r.invoices
          /\ current_invoice' = r.current
          /\ error' = r.error
          /\ pc' = IF r.error = "none" THEN "rows" ELSE "raised"
          /\ row_idx' = IF r.error = "none" THEN row_idx + 1 ELSE row_idx
    /\ UNCHANGED <<headers, table, read_calls, idx, generated_files, calls, fs>>
    /\ UNCHANGED <<config, webvars>>

\* lines 136-141 and 351-355: the last invoice is closed, the list returned,
\* generated_files = [] and the loop over the invoices starts
ReadExcelDataReturn ==
    /\ pc = "rows"
    /\ row_idx - 1 > Len(table)
    /\ invoices' = CloseLast(invoices, current_invoice)
    /\ pc' = "render"
    /\ idx' = 1
    /\ generated_files' = <<>>
    /\ UNCHANGED <<headers, table, row_idx, current_invoice, error, read_calls,
                   calls, fs>>
    /\ UNCHANGED <<config, webvars>>

----------------------------------------------------------------------------
(* calculate_totals *)

Hundred == 100

\* amounts are held in units of 1/Scale
Scale == Hundred * Hundred

\* line 145: sum(item['quantity'] * item['price'] for item in items)
RECURSIVE SumLineTotals(_)
SumLineTotals(items) ==
    IF items = <<>> THEN 0
    ELSE Head(items).quantity * Head(items).price + SumLineTotals(Tail(items))

\* line 146: subtotal * (discount_percent / 100)
DiscountAmount(subtotal, discount_percent) ==
    (subtotal * discount_percent) \div Hundred

\* line 148: subtotal_after_discount * (tax_percent / 100)
TaxAmount(subtotal_after_discount, tax_percent) ==
    (subtotal_after_discount * tax_percent) \div Hundred

\* calculate_totals with the tax taken on the subtotal before the discount
CalculateTotals_TaxBeforeDiscount(items, tax_percent, discount_percent) ==
    LET subtotal == SumLineTotals(items) * Scale
        discount_amount == DiscountAmount(subtotal, discount_percent)
        subtotal_after_discount == subtotal - discount_amount
        tax_amount == TaxAmount(subtotal, tax_percent)
        total == subtotal_after_discount + tax_amount
    IN [subtotal |-> subtotal,
        discount_amount |-> discount_amount,
        subtotal_after_discount |-> subtotal_after_discount,
        tax_amount |-> tax_amount,
        total |-> total]

\* lines 143-157
CalculateTotals(items, tax_percent, discount_percent) ==
    LET subtotal == SumLineTotals(items) * Scale
        discount_amount == DiscountAmount(subtotal, discount_percent)
        subtotal_after_discount == subtotal - discount_amount
        tax_amount == TaxAmount(subtotal_after_discount, tax_percent)
        total == subtotal_after_discount + tax_amount
    IN [subtotal |-> subtotal,
        discount_amount |-> discount_amount,
        subtotal_after_discount |-> subtotal_after_discount,
        tax_amount |-> tax_amount,
        total |-> total]

----------------------------------------------------------------------------
(* generate_pdf *)

OutputFolder == "generated_invoices"

\* line 162: os.path.join(self.output_folder, f"Invoice_{invoice_number}.pdf")
Filename(invoice_data) ==
    OutputFolder \o "/" \o "Invoice_" \o invoice_data.invoice_number \o ".pdf"

\* f"{p:.1f}" of a whole number
Pct1(p) == IntToStr(p) \o ".0"

\* lines 283-291: the discount rows of the totals table
DiscountRows(invoice_data, totals) ==
    IF invoice_data.discount_percent > 0
    THEN << <<"Discount (" \o Pct1(invoice_data.discount_percent) \o "%):",
              totals.discount_amount>>,
            <<"Subtotal after Discount:", totals.subtotal_after_discount>> >>
    ELSE <<>>

\* the tax row shown whenever the percent is not negative
TaxRows_ShownAtZero(invoice_data, totals) ==
    IF invoice_data.tax_percent >= 0
    THEN << <<"Tax (" \o Pct1(invoice_data.tax_percent) \o "%):",
              totals.tax_amount>> >>
    ELSE <<>>

\* lines 294-298: the tax row of the totals table
TaxRows(invoice_data, totals) ==
    IF invoice_data.tax_percent > 0
    THEN << <<"Tax (" \o Pct1(invoice_data.tax_percent) \o "%):",
              totals.tax_amount>> >>
    ELSE <<>>

\* lines 276-301: totals_data, each row <<label, amount>>; the amount is kept
\* as the scaled number, its two-digit rendering is not modelled
TotalsData(invoice_data, totals) ==
    << <<"Subtotal:", totals.subtotal>> >>
    \o DiscountRows(invoice_data, totals)
    \o TaxRows(invoice_data, totals)
    \o << <<"Total Amount Due:", totals.total>> >>

\* line 176: the logo is put into the story
LogoShown == logo_path # "" /\ logo_file # "absent"

\* lines 177 and 345: Image() and doc.build() raise on a file that is in the
\* story and is not an image
LogoUnreadable == LogoShown /\ logo_file = "not_image"

\* lines 173-342: the sections appended to the story, in order
Story ==
    (IF LogoShown THEN <<"logo">> ELSE <<>>)
    \o <<"company_name", "company_info", "invoice_title", "details_table",
         "bill_to", "items_table", "totals_table", "thank_you", "footer">>

\* lines 159-346: the document doc.build writes.  start_row is a history
\* field: the record the document was rendered from.
Document(invoice_data) ==
    LET totals == CalculateTotals(invoice_data.items, invoice_data.tax_percent,
                                  invoice_data.discount_percent)
    IN [invoice_number |-> invoice_data.invoice_number,
        start_row |-> invoice_data.start_row,
        n_items |-> Len(invoice_data.items),
        story |-> Story,
        totals |-> totals,
        totals_data |-> TotalsData(invoice_data, totals)]

\* the file system after a write of doc to path
WriteFile(files, path, doc) ==
    [f \in DOMAIN files \cup {path} |-> IF f = path THEN doc ELSE files[f]]

----------------------------------------------------------------------------
(* process_excel_file *)

\* lines 356-360: generate_pdf returns; its filename is appended
GeneratePdfOk ==
    /\ pc = "render"
    /\ idx <= Len(invoices)
    /\ ~LogoUnreadable
    /\ calls' = Append(calls, idx)
    /\ fs' = WriteFile(fs, Filename(invoices[idx]), Document(invoices[idx]))
    /\ generated_files' = Append(generated_files, Filename(invoices[idx]))
    /\ idx' = idx + 1
    /\ UNCHANGED <<headers, table, pc, row_idx, invoices, current_invoice, error,
                   read_calls>>
    /\ UNCHANGED <<config, webvars>>

\* line 358: generate_pdf raises (the file cannot be written, the document
\* cannot be built, the logo is not an image); nothing in process_excel_file
\* catches it
GeneratePdfFails ==
    /\ pc = "render"
    /\ idx <= Len(invoices)
    /\ calls' = Append(calls, idx)
    /\ error' = IF LogoUnreadable THEN "ImageError" ELSE "RenderError"
    /\ pc' = "raised"
    /\ UNCHANGED <<headers, table, row_idx, invoices, current_invoice, read_calls,
                   idx, generated_files, fs>>
    /\ UNCHANGED <<config, webvars>>

\* lines 362-367: the loop is over, generated_files is returned
ProcessReturn ==
    /\ pc = "render"
    /\ idx > Len(invoices)
    /\ pc' = "done"
    /\ UNCHANGED <<headers, table, row_idx, invoices, current_invoice, error,
                   read_calls, idx, generated_files, calls, fs>>
    /\ UNCHANGED <<config, webvars>>

----------------------------------------------------------------------------
(* Inputs and specifications *)

SeqsUpTo(S, n) == UNION {[1..k -> S] : k \in 0..n}

\* the state at the call of process_excel_file on a sheet with the given
\* header row and data rows and the given logo, the output folder created
\* by load_config and empty, no web request in progress
CoreInit(hs, tbl) ==
    /\ headers = hs
    /\ table = tbl
    /\ pc = "start"
    /\ row_idx = 2
    /\ invoices = <<>>
    /\ current_invoice = <<>>
    /\ error = "none"
    /\ read_calls = 0
    /\ idx = 1
    /\ generated_files = <<>>
    /\ calls = <<>>
    /\ fs = <<>>

InitState(hs, tbl, lp, lf) ==
    /\ logo_path = lp
    /\ logo_file = lf
    /\ requests = <<>>
    /\ uploads = {}
    /\ output_folder_exists = TRUE
    /\ CoreInit(hs, tbl)

\* lines 38 and 48: no logo is configured (the default)
InitWith(hs, tbl) == InitState(hs, tbl, "", "absent")

\* rows that differ in the Invoice Number and Item Name cells, and one item
\* row whose Quantity is not a number
GroupRows ==
    {MkRow(inv, None, item, Num(2), Num(50), None, None) :
        inv \in {None, Num(0), Num(1), Str("A")},
        item \in {None, Num(0), Str("Pen")}}
    \cup {MkRow(None, None, Str("Pen"), Str("abc"), Num(50), None, None)}

Init == \E tbl \in SeqsUpTo(GroupRows, MaxRows) : InitWith(Columns, tbl)

Next ==
    \/ ReadExcelDataCall
    \/ ReadRow
    \/ ReadExcelDataReturn
    \/ GeneratePdfOk
    \/ GeneratePdfFails
    \/ ProcessReturn

Spec == Init /\ [][Next]_vars

\* one invoice: a start row and item rows after it, the quantities, prices
\* and percents varied
RenderFirstRows ==
    {MkRow(Num(1), None, item, Num(q), Num(p), tax, disc) :
        item \in {None, Str("Pen")}, q \in {1, 2}, p \in {50, 100},
        tax \in {None, Num(10), Num(25)}, disc \in {None, Num(10), Num(50)}}

RenderItemRows ==
    {MkRow(None, None, Str("Pen"), Num(q), Num(p), None, None) :
        q \in {1, 2}, p \in {50, 100}}

InitRender ==
    \E first \in RenderFirstRows :
        \E rest \in SeqsUpTo(RenderItemRows, MaxItems - 1) :
            InitWith(Columns, <<first>> \o rest)

SpecRender == InitRender /\ [][Next]_vars

\* rows whose numeric cells are empty, numbers, numerals or other text, on
\* sheets that have or lack the numeric columns
CoerceProfiles ==
    { <<Num(2), Num(50), Num(10), Num(10)>>,
      <<None, None, None, None>>,
      <<Str("abc"), Num(50), None, None>>,
      <<Num(2), Str("7"), Str("10"), None>>,
      <<Num(2), Num(50), Str("abc"), None>>,
      <<Num(2), Num(50), None, Str("n/a")>> }

CoerceRows ==
    {MkRow(inv, None, Str("Pen"), pr[1], pr[2], pr[3], pr[4]) :
        inv \in {None, Str("A")}, pr \in CoerceProfiles}

CoerceHeaders ==
    {Columns, Columns \ {"Tax %", "Quantity"}, Columns \ {"Discount %", "Price"}}

InitCoerce ==
    \E hs \in CoerceHeaders :
        \E tbl \in SeqsUpTo(CoerceRows, MaxRows) : InitWith(hs, tbl)

SpecCoerce == InitCoerce /\ [][Next]_vars

\* start rows and item rows whose Date cell is empty or holds a date, on
\* sheets that have or lack the Date column
DateRows ==
    {MkRow(inv, d, Str("Pen"), Num(2), Num(50), None, None) :
        inv \in {None, Num(1), Str("A")}, d \in {None, Str("2024-01-15")}}

DateHeaders == {Columns, Columns \ {"Date"}}

InitDate ==
    \E hs \in DateHeaders :
        \E tbl \in SeqsUpTo(DateRows, MaxRows) : InitWith(hs, tbl)

SpecDate == InitDate /\ [][Next]_vars

\* sheets of invoices with one item each, with no logo configured or a logo
\* path whose file is absent, an image, or not an image
LogoRows ==
    {MkRow(inv, None, Str("Pen"), Num(2), Num(50), None, None) :
        inv \in {None, Num(1), Str("A")}}

InitLogo ==
    \E lp \in {"", "logo.png"} :
        \E lf \in {"absent", "image", "not_image"} :
            \E tbl \in SeqsUpTo(LogoRows, MaxRows) : InitState(Columns, tbl, lp, lf)

SpecLogo == InitLogo /\ [][Next]_vars

----------------------------------------------------------------------------
(* web_app.py: upload_file, and load_config as run by each request.  A file *)
(* name is a sequence of one-character strings.                            *)

UpperCase == <<"A", "B", "C", "D", "E", "F", "G", "H", "I", "J", "K", "L", "M",
               "N", "O", "P", "Q", "R", "S", "T", "U", "V", "W", "X", "Y", "Z">>
LowerCase == <<"a", "b", "c", "d", "e", "f", "g", "h", "i", "j", "k", "l", "m",
               "n", "o", "p", "q", "r", "s", "t", "u", "v", "w", "x", "y", "z">>

\* str.lower()
LowerChar(c) ==
    IF \E i \in 1..Len(UpperCase) : UpperCase[i] = c
    THEN LowerCase[CHOOSE i \in 1..Len(UpperCase) : UpperCase[i] = c]
    ELSE c

Lower(name) == [i \in 1..Len(name) |-> LowerChar(name[i])]

\* web_app.py line 17
ALLOWED_EXTENSIONS == {<<"x", "l", "s", "x">>, <<"x", "l", "s">>}

\* filename.rsplit('.', 1): scanning from the right end, the name is cut at
\* the first '.' met; a name without '.' comes back whole
RECURSIVE RSplitAt(_, _)
RSplitAt(name, i) ==
    IF i = 0 THEN <<name>>
    ELSE IF name[i] = "." THEN <<SubSeq(name, 1, i - 1), SubSeq(name, i + 1, Len(name))>>
         ELSE RSplitAt(name, i - 1)

RSplit(name) == RSplitAt(name, Len(name))

\* allowed_file without the test for a '.', taking the last part of the split
AllowedFile_NoDotTest(filename) ==
    Lower(RSplit(filename)[Len(RSplit(filename))]) \in ALLOWED_EXTENSIONS

\* web_app.py lines 31-34
AllowedFile(filename) ==
    /\ \E i \in 1..Len(filename) : filename[i] = "."
    /\ Lower(RSplit(filename)[2]) \in ALLOWED_EXTENSIONS

\* secure_filename on names made of letters and dots: the dots at both ends
\* are stripped
RECURSIVE SecureFilename(_)
SecureFilename(name) ==
    IF name = <<>> THEN name
    ELSE IF Head(name) = "." THEN SecureFilename(Tail(name))
    ELSE IF name[Len(name)] = "." THEN SecureFilename(SubSeq(name, 1, Len(name) - 1))
    ELSE name

\* a request as it enters upload_file
NewRequest(has_file, filename) ==
    [has_file |-> has_file,     \* 'file' in request.files
     filename |-> filename,     \* file.filename
     pc |-> "recv",
     allowed |-> "unset",       \* history: what allowed_file returned
     saved |-> FALSE,           \* history: file.save was called
     generated |-> FALSE,       \* history: process_excel_file returned
     error |-> "none",          \* the exception caught at line 72
     response |-> "none"]       \* the message flashed

\* lines 46-56 and 80-82: the checks on the upload
UploadCheck(r) ==
    /\ requests[r].pc = "recv"
    /\ LET q == requests[r]
       IN requests' = [requests EXCEPT ![r] =
              IF ~q.has_file \/ q.filename = <<>>
              THEN [q EXCEPT !.pc = "responded", !.response = "No file selected"]
              ELSE IF AllowedFile(q.filename)
                   THEN [q EXCEPT !.pc = "save", !.allowed = "true"]
                   ELSE [q EXCEPT !.pc = "responded", !.allowed = "false",
                                  !.response = "Invalid file type"]]
    /\ UNCHANGED <<uploads, output_folder_exists>>

\* lines 57-59: the upload is saved under its secured name
SaveUpload(r) ==
    /\ requests[r].pc = "save"
    /\ uploads' = uploads \cup {SecureFilename(requests[r].filename)}
    /\ requests' = [requests EXCEPT ![r].pc = "load_config", ![r].saved = TRUE]
    /\ UNCHANGED output_folder_exists

\* web_app.py line 65, invoice_generator.py line 54: InvoiceGenerator() runs
\* load_config, which tests os.path.exists(self.output_folder)
LoadConfigExists(r) ==
    /\ requests[r].pc = "load_config"
    /\ requests' = [requests EXCEPT ![r].pc =
                       IF output_folder_exists THEN "process" ELSE "makedirs"]
    /\ UNCHANGED <<uploads, output_folder_exists>>

\* invoice_generator.py line 55: os.makedirs(self.output_folder) raises
\* FileExistsError when the directory exists by now; web_app.py lines 72-78
\* catch it
LoadConfigMakedirs(r) ==
    /\ requests[r].pc = "makedirs"
    /\ IF output_folder_exists
       THEN /\ requests' = [requests EXCEPT ![r].pc = "responded",
                                            ![r].error = "FileExistsError",
                                            ![r].response = "Error generating invoices"]
            /\ UNCHANGED output_folder_exists
       ELSE /\ output_folder_exists' = TRUE
            /\ requests' = [requests EXCEPT ![r].pc = "process"]
    /\ UNCHANGED uploads

\* web_app.py lines 66-70: process_excel_file (modelled above) returns
ProcessUploadOk(r) ==
    /\ requests[r].pc = "process"
    /\ requests' = [requests EXCEPT ![r].pc = "responded",
                                    ![r].generated = TRUE,
                                    ![r].response = "Success"]
    /\ UNCHANGED <<uploads, output_folder_exists>>

\* web_app.py lines 66 and 72-78: process_excel_file raises
ProcessUploadFails(r) ==
    /\ requests[r].pc = "process"
    /\ requests' = [requests EXCEPT ![r].pc = "responded",
                                    ![r].error = "Exception",
                                    ![r].response = "Error generating invoices"]
    /\ UNCHANGED <<uploads, output_folder_exists>>

CoreUnchanged ==
    UNCHANGED <<headers, table, pc, row_idx, invoices, current_invoice, error,
                read_calls, idx, generated_files, calls, fs, config>>

NextWeb ==
    \/ \E r \in DOMAIN requests : UploadCheck(r) /\ CoreUnchanged
    \/ \E r \in DOMAIN requests : SaveUpload(r) /\ CoreUnchanged
    \/ \E r \in DOMAIN requests : LoadConfigExists(r) /\ CoreUnchanged
    \/ \E r \in DOMAIN requests : LoadConfigMakedirs(r) /\ CoreUnchanged
    \/ \E r \in DOMAIN requests : ProcessUploadOk(r) /\ CoreUnchanged
    \/ \E r \in DOMAIN requests : ProcessUploadFails(r) /\ CoreUnchanged

\* the names uploaded: a.xlsx, a.XLS, a.csv, xlsx, a.xlsx.txt, .xlsx, a. and
\* the empty name
UploadNames ==
    { <<"a", ".", "x", "l", "s", "x">>,
      <<"a", ".", "X", "L", "S">>,
      <<"a", ".", "c", "s", "v">>,
      <<"x", "l", "s", "x">>,
      <<"a", ".", "x", "l", "s", "x", ".", "t", "x", "t">>,
      <<".", "x", "l", "s", "x">>,
      <<"a", ".">>,
      <<>> }

UploadInputs ==
    {NewRequest(TRUE, n) : n \in UploadNames} \cup {NewRequest(FALSE, <<>>)}

\* requests handled concurrently by the server; the output folder named by
\* the configuration exists or not
InitWeb ==
    /\ CoreInit(Columns, <<>>)
    /\ logo_path = ""
    /\ logo_file = "absent"
    /\ uploads = {}
    /\ output_folder_exists \in BOOLEAN
    /\ requests \in [1..MaxRequests -> UploadInputs]

SpecWeb == InitWeb /\ [][NextWeb]_vars

----------------------------------------------------------------------------
(* Vocabulary of the properties *)

\* a cell that holds something: any number (0 included) or a non-empty string
NonEmptyCell(c) == c.t = "num" \/ (c.t = "str" /\ c.s # "")

Cell(k, col) == table[k][col]

\* read_excel_data has returned its list
ReadReturned == pc \in {"render", "done"} \/ error \in {"RenderError", "ImageError"}

\* the data rows (1-based, sheet row minus one) with a non-empty Invoice Number
StartRows == {k \in 1..Len(table) : NonEmptyCell(Cell(k, "Invoice Number"))}

\* the rows from start row k up to the next start row or the end of the table
RunOf(k) == {j \in k..Len(table) : \A m \in StartRows : m > k => j < m}

ItemRowsIn(S) == {j \in S : NonEmptyCell(Cell(j, "Item Name"))}

\* the open and closed records of the grouper
Records == {invoices[k] : k \in 1..Len(invoices)}
           \cup {current_invoice[k] : k \in 1..Len(current_invoice)}

\* the indices generate_pdf has been called with
Called == {calls[i] : i \in 1..Len(calls)}

----------------------------------------------------------------------------
(* C1: the number of InvoiceRecords returned by read_excel_data equals the *)
(* number of rows whose Invoice Number cell is non-empty, for every table  *)
(* of empty, string and number cells, the number 0 included.               *)
C1_RecordCount ==
    ReadReturned => Len(invoices) = Cardinality(StartRows)

(* C2: every returned record's items are, in row order, the rows with a    *)
(* non-empty Item Name in the run of rows from the record's start row up   *)
(* to the next start row or the end of the table.                          *)
C2_ItemsOfRun ==
    ReadReturned =>
        \A k \in 1..Len(invoices) :
            LET rec == invoices[k]
                run == RunOf(rec.start_row - 1)
            IN /\ Len(rec.items) = Cardinality(ItemRowsIn(run))
               /\ \A i \in 1..Len(rec.items) : rec.items[i].row - 1 \in run
               /\ \A i, j \in 1..Len(rec.items) :
                      i < j => rec.items[i].row < rec.items[j].row

(* C3: when generate_pdf fails for one record of the batch, every other    *)
(* record of the batch, before and after it, still has its document        *)
(* produced.                                                               *)
C3_OthersStillRendered ==
    error \in {"RenderError", "ImageError"} =>
        \A k \in 1..Len(invoices) : k # idx => k \in Called

----------------------------------------------------------------------------
\* the record a written document was rendered from
RecordOf(d) == CHOOSE r \in Records : r.start_row = d.start_row

\* the sum of quantity * price over the first n items
RECURSIVE LineTotalsTo(_, _)
LineTotalsTo(items, n) ==
    IF n = 0 THEN 0
    ELSE LineTotalsTo(items, n - 1) + items[n].quantity * items[n].price

\* the items are (2 x 100), (1 x 50), the tax 10 % and the discount 10 %
IsExampleRecord(r) ==
    /\ Len(r.items) = 2
    /\ r.items[1].quantity = 2 /\ r.items[1].price = 100
    /\ r.items[2].quantity = 1 /\ r.items[2].price = 50
    /\ r.tax_percent = 10
    /\ r.discount_percent = 10

(* C4: the totals of every rendered document are: subtotal = the sum of    *)
(* quantity * price; discount_amount = subtotal * discount_percent / 100;  *)
(* subtotal_after_discount = subtotal - discount_amount; tax_amount =      *)
(* subtotal_after_discount * tax_percent / 100 (the tax comes after the    *)
(* discount); total = subtotal_after_discount + tax_amount.  Items         *)
(* (2 x 100), (1 x 50) with tax 10 and discount 10 give 250, 25, 225,      *)
(* 22.5 and 247.5 (amounts in 1/10000).                                    *)
C4_Totals ==
    \A path \in DOMAIN fs :
        LET t == fs[path].totals
            r == RecordOf(fs[path])
        IN /\ t.subtotal = LineTotalsTo(r.items, Len(r.items)) * 10000
           /\ t.discount_amount * 100 = t.subtotal * r.discount_percent
           /\ t.subtotal_after_discount = t.subtotal - t.discount_amount
           /\ t.tax_amount * 100 = t.subtotal_after_discount * r.tax_percent
           /\ t.total = t.subtotal_after_discount + t.tax_amount
           /\ IsExampleRecord(r) =>
                  t = [subtotal |-> 2500000,
                       discount_amount |-> 250000,
                       subtotal_after_discount |-> 2250000,
                       tax_amount |-> 225000,
                       total |-> 2475000]

\* the example invoice has been rendered, and its tax (22.5) is less than
\* 10 % of its subtotal
C4_Witness ==
    \E path \in DOMAIN fs :
        /\ IsExampleRecord(RecordOf(fs[path]))
        /\ fs[path].totals.total = 2475000
        /\ fs[path].totals.tax_amount < 250000

Labels(rows) == [i \in 1..Len(rows) |-> rows[i][1]]

(* C5: the totals block of every rendered document is, in order:           *)
(* `Subtotal:`; `Discount (D%):` directly followed by `Subtotal after      *)
(* Discount:` if and only if discount_percent > 0; `Tax (T%):` if and only *)
(* if tax_percent > 0; `Total Amount Due:` last.  With both percents 0 it  *)
(* has exactly the two lines Subtotal and Total Amount Due.                *)
C5_TotalsBlock ==
    \A path \in DOMAIN fs :
        LET r == RecordOf(fs[path])
            ls == Labels(fs[path].totals_data)
            n == Len(ls)
            d == r.discount_percent > 0
            x == r.tax_percent > 0
            dlabel == "Discount (" \o IntToStr(r.discount_percent) \o ".0%):"
            xlabel == "Tax (" \o IntToStr(r.tax_percent) \o ".0%):"
        IN /\ n = 2 + (IF d THEN 2 ELSE 0) + (IF x THEN 1 ELSE 0)
           /\ ls[1] = "Subtotal:"
           /\ ls[n] = "Total Amount Due:"
           /\ d => ls[2] = dlabel /\ ls[3] = "Subtotal after Discount:"
           /\ x => ls[n - 1] = xlabel
           /\ (~d /\ ~x) => ls = <<"Subtotal:", "Total Amount Due:">>
           /\ (r.discount_percent = 10 /\ r.tax_percent = 25) =>
                  ls = <<"Subtotal:", "Discount (10.0%):",
                         "Subtotal after Discount:", "Tax (25.0%):",
                         "Total Amount Due:">>

\* a document with both percents 0 has been rendered with two lines
C5_Witness ==
    \E path \in DOMAIN fs :
        /\ RecordOf(fs[path]).discount_percent = 0
        /\ RecordOf(fs[path]).tax_percent = 0
        /\ Len(RecordOf(fs[path]).items) > 0
        /\ Len(fs[path].totals_data) = 2

----------------------------------------------------------------------------
\* the first data row of tbl with a non-empty Invoice Number, Len(tbl) + 1
\* when there is none
FirstStart(tbl) ==
    LET S == {k \in 1..Len(tbl) : NonEmptyCell(tbl[k]["Invoice Number"])}
    IN IF S = {} THEN Len(tbl) + 1 ELSE CHOOSE k \in S : \A m \in S : k <= m

\* the rows with a blank Invoice Number and a non-blank Item Name that come
\* before every row with a non-empty Invoice Number
Orphans(tbl) ==
    {k \in 1..Len(tbl) : k < FirstStart(tbl) /\ NonEmptyCell(tbl[k]["Item Name"])}

\* tbl[k..] without the orphan rows
RECURSIVE DropOrphans(_, _)
DropOrphans(tbl, k) ==
    IF k > Len(tbl) THEN <<>>
    ELSE IF k \in Orphans(tbl) THEN DropOrphans(tbl, k + 1)
         ELSE <<tbl[k]>> \o DropOrphans(tbl, k + 1)

WithoutOrphans(tbl) == DropOrphans(tbl, 1)

\* a list of records without the history fields (the sheet row numbers)
Content(invs) ==
    [k \in 1..Len(invs) |->
        [invoice_number |-> invs[k].invoice_number,
         date |-> invs[k].date,
         tax_percent |-> invs[k].tax_percent,
         discount_percent |-> invs[k].discount_percent,
         items |-> [i \in 1..Len(invs[k].items) |->
                       [name |-> invs[k].items[i].name,
                        quantity |-> invs[k].items[i].quantity,
                        price |-> invs[k].items[i].price]]]]

ReadRaised == pc = "raised" /\ error = "ValueError"

(* C6: a row with a blank Invoice Number and a non-blank Item Name that    *)
(* comes before the first row with a non-empty Invoice Number is dropped:  *)
(* no record holds its item, the row never makes read_excel_data raise,    *)
(* and read_excel_data ends as it does on the table without the orphan     *)
(* rows, with the same records.                                            *)
C6_OrphansDropped ==
    /\ \A r \in Records :
           \A i \in 1..Len(r.items) : r.items[i].row - 1 \notin Orphans(table)
    /\ ReadRaised => row_idx - 1 \notin Orphans(table)
    /\ ReadRaised => ReadExcelData(WithoutOrphans(table)).error = "ValueError"
    /\ ReadReturned =>
           /\ ReadExcelData(WithoutOrphans(table)).error = "none"
           /\ Content(invoices) =
                  Content(ReadExcelData(WithoutOrphans(table)).invoices)

\* a batch has ended on a table that begins with an orphan row whose
\* Quantity is not a number, followed by an invoice with an item
C6_Witness ==
    /\ pc = "done"
    /\ 1 \in Orphans(table)
    /\ Cell(1, "Quantity") = Str("abc")
    /\ Len(invoices) >= 1
    /\ \E k \in 1..Len(invoices) : Len(invoices[k].items) >= 1

----------------------------------------------------------------------------
\* process_excel_file has ended after the grouper returned its records
BatchEnded == pc = "done" \/ error \in {"RenderError", "ImageError"}

(* C7: process_excel_file runs the grouper exactly once and then calls     *)
(* generate_pdf exactly once for each record, in the order the records     *)
(* were closed; the returned list has one entry per record, the k-th       *)
(* being the output path of the k-th record.                               *)
C7_RenderOncePerRecordInOrder ==
    BatchEnded =>
        /\ read_calls = 1
        /\ calls = [k \in 1..Len(invoices) |-> k]
        /\ pc = "done" =>
               generated_files = [k \in 1..Len(invoices) |-> Filename(invoices[k])]

(* C8: after a batch in which every render succeeds the output folder      *)
(* holds one distinct document per record: each record is written to       *)
(* output_folder/Invoice_<invoice_number>.pdf and no two records of the    *)
(* batch are written to the same path.                                     *)
C8_DistinctDocuments ==
    pc = "done" =>
        /\ \A k \in 1..Len(invoices) :
               /\ generated_files[k] =
                      "generated_invoices/Invoice_"
                          \o invoices[k].invoice_number \o ".pdf"
               /\ generated_files[k] \in DOMAIN fs
        /\ \A j, k \in 1..Len(invoices) :
               j # k => generated_files[j] # generated_files[k]
        /\ Cardinality(DOMAIN fs) = Len(invoices)

\* the cell of a numeric column is empty, missing from the sheet, or text
\* that is not a number
NoNumber(k, col) ==
    \/ col \notin headers
    \/ ~NonEmptyCell(Cell(k, col))
    \/ Cell(k, col).t = "str" /\ ~Float(Cell(k, col)).ok

(* C9: numeric coercion never fails the grouper: a Quantity, Price, Tax %  *)
(* or Discount % cell that is empty, missing or not parseable as a number  *)
(* yields 0 for that field, and read_excel_data returns instead of         *)
(* raising.                                                                *)
C9_CoercionNeverFails ==
    /\ ~ReadRaised
    /\ \A r \in Records :
           /\ NoNumber(r.start_row - 1, "Tax %") => r.tax_percent = 0
           /\ NoNumber(r.start_row - 1, "Discount %") => r.discount_percent = 0
           /\ \A i \in 1..Len(r.items) :
                  /\ NoNumber(r.items[i].row - 1, "Quantity") =>
                         r.items[i].quantity = 0
                  /\ NoNumber(r.items[i].row - 1, "Price") =>
                         r.items[i].price = 0

(* C10: every record returned by read_excel_data has at least one item,    *)
(* also when a row that starts an invoice carries no item and is followed  *)
(* directly by another start row or by the end of the table.               *)
\* (stated on the tables none of whose cells is the number 0, which C1 and
\* C2 are about)
C10_ItemsNonEmpty ==
    (ReadReturned /\ \A k \in 1..Len(table) : \A c \in Columns : Cell(k, c) # Num(0))
        => \A k \in 1..Len(invoices) : Len(invoices[k].items) >= 1

----------------------------------------------------------------------------
(* C11: when a row that starts an invoice has an absent (empty) Date cell, *)
(* the record built by read_excel_data has its date set to the current     *)
(* processing date, not to an empty value.                                 *)
C11_DateDefaultsToToday ==
    \A r \in Records :
        ("Date" \notin headers \/ ~NonEmptyCell(Cell(r.start_row - 1, "Date")))
            => r.date = Str(Today)

----------------------------------------------------------------------------
(* C12: a configured logo never makes a document fail: for every non-empty *)
(* logo_path whose file is missing, or exists but is not readable as an    *)
(* image, generate_pdf skips the logo and produces the document with all   *)
(* the remaining sections in their fixed order.                            *)
C12_LogoNeverFails ==
    (logo_path # "" /\ logo_file # "image") =>
        /\ error # "ImageError"
        /\ \A path \in DOMAIN fs :
               fs[path].story =
                   <<"company_name", "company_info", "invoice_title",
                     "details_table", "bill_to", "items_table", "totals_table",
                     "thank_you", "footer">>

----------------------------------------------------------------------------
(* The upload requests *)

\* the requests that ran load_config
Initialised == {r \in DOMAIN requests :
                   requests[r].pc \in {"process", "responded"} /\ requests[r].saved}

\* the name has no '.', or its text after the last '.', lower-cased, is
\* neither xlsx nor xls
LastDot(name) ==
    CHOOSE i \in 1..Len(name) :
        name[i] = "." /\ \A j \in (i + 1)..Len(name) : name[j] # "."

Extension(name) == SubSeq(name, LastDot(name) + 1, Len(name))

BadName(name) ==
    \/ \A i \in 1..Len(name) : name[i] # "."
    \/ Lower(Extension(name)) \notin {<<"x", "l", "s", "x">>, <<"x", "l", "s">>}

\* the request has gone past the extension check and used the upload
UsedUpload(q) ==
    \/ q.pc \in {"save", "load_config", "makedirs", "process"}
    \/ q.saved
    \/ q.generated
    \/ q.error # "none"

\* C13: when InvoiceGenerator initialisations run concurrently with the
\* same output folder, absent at first, every one of them completes without
\* error and the folder exists afterwards, in every interleaving.
C13_ConcurrentInitSucceeds ==
    /\ \A r \in DOMAIN requests : requests[r].error # "FileExistsError"
    /\ Initialised # {} => output_folder_exists

\* C14: a request whose file name has no '.' or whose extension is not
\* xlsx or xls (case-insensitively) never has its file saved, never reaches
\* InvoiceGenerator and never generates a document; a request uses its upload
\* only after allowed_file has returned true for it.
C14_CheckPrecedesUse ==
    \A r \in DOMAIN requests :
        LET q == requests[r]
        IN /\ (q.has_file /\ BadName(q.filename)) =>
                  /\ ~UsedUpload(q)
                  /\ q.allowed # "true"
           /\ UsedUpload(q) => q.allowed = "true"

\* one request with a dotted name of another extension has been refused
\* while another request, with an upper-case xls extension, went through
C14_Witness ==
    \E r1, r2 \in DOMAIN requests :
        /\ requests[r1].filename = <<"a", ".", "x", "l", "s", "x", ".", "t", "x", "t">>
        /\ requests[r1].response = "Invalid file type"
        /\ requests[r2].filename = <<"a", ".", "X", "L", "S">>
        /\ requests[r2].generated

====
